---- MODULE Spec2Model ----
(***************************************************************************)
(* A model of pi_camera_server.py: the camera session (the globals camera, *)
(* recording, stream_active and the two configs), the frame grabber        *)
(* thread feeding latest_frame, and the Flask handlers that switch between *)
(* preview and recording.  Flask runs with threaded=True, so every request *)
(* is a thread of its own.  A handler is cut into steps at the places      *)
(* where another thread can observe or disturb it: its lock operations,    *)
(* its SDK calls on the handle and its writes of the globals; statements   *)
(* that follow each other without such a place in between form one step.   *)
(* The time.sleep calls are not steps: any number of steps of the other    *)
(* threads fits between two steps of a thread.                             *)
(***************************************************************************)
EXTENDS Integers, Sequences, FiniteSets, TLC

(* ---------------------------- bounds ---------------------------------- *)

\* Request threads of the threaded Flask server.
NumReq == 2
\* Picamera2() objects constructed in one run; the constructor is not
\* entered once this many exist.
MaxHandles == 2
\* Grabber thread objects alive or referenced at a time; Thread() is not
\* entered beyond it.
MaxGrabbers == 2
\* Library calls that raise in one run of SpecSeq (none does in Spec).
MaxFaults == 2
\* Requests dispatched in one run of Spec (any number of them at a time).
MaxRequests == 3
\* Requests dispatched in one run of SpecSeq (one at a time).
MaxSeqRequests == 4
\* Viewers connecting in one run of SpecView, and the calls that raise there.
MaxViewers == 2
MaxViewFaults == 6
MaxCfgRequests == 2
MaxCfgFaults == 1
MaxRateRequests == 3
MaxRateFaults == 1
MaxExitRequests == 3
MaxExitFaults == 1
MaxLockRequests == 3
MaxLockFaults == 1
MaxFileRequests == 3
MaxFileFaults == 1
NumClients == 2
MaxAuthRequests == 4
MaxAuthFaults == 1

Reqs == 1..NumReq
Grabbers == 1..MaxGrabbers
Handles == 1..MaxHandles

(* ---------------------------- values ---------------------------------- *)

Fields == {"width", "height", "fps"}

\* stream_config and record_config as the module sets them at import.
DefaultStreamConfig == [width |-> 640, height |-> 480, fps |-> 30]
DefaultRecordConfig == [width |-> 1920, height |-> 1080, fps |-> 30]

\* The clients, each with a Flask session of its own, and the credentials
\* a login request may carry.
Clients == 1 .. NumClients
NoUser == "none"
DEFAULT_USERNAME == "admin"
DEFAULT_PASSWORD == "gary2026"
Usernames == {DEFAULT_USERNAME, "pi"}
Passwords == {DEFAULT_PASSWORD, "", "admin"}

\* No configuration applied to a handle yet.
NoCfg == [width |-> 0, height |-> 0, fps |-> 0]

\* request.json bodies of the two settings endpoints: each field optional.
StreamData == { [width |-> 1280, height |-> 720] }
RecordData == { [fps |-> 15] }

\* Recording configurations with widths below, at and above the two
\* thresholds of the bit rate, each with two heights and frame rates.
RateWidths == {640, 1279, 1280, 1919, 1920, 3840}
RateConfigs ==
    { [width |-> w, height |-> hf[1], fps |-> hf[2]] :
        w \in RateWidths, hf \in { << 480, 30 >>, << 1080, 15 >> } }

\* The values the fields of a settings request have when they are present.
NewConfig == [width |-> 1280, height |-> 720, fps |-> 15]

\* The JSON objects a settings request may carry: any of the three fields
\* present or absent.
Bodies == { [f \in D |-> NewConfig[f]] : D \in SUBSET Fields }

\* An update that stores the fields of the body and sets the absent ones
\* back to nothing.
ReplaceConfig(cfg, data) ==
    [f \in Fields |-> IF f \in DOMAIN data THEN data[f] ELSE NoCfg[f]]

\* data.get(f, cfg[f]) for each of the three fields.
MergeConfig(cfg, data) ==
    [f \in Fields |-> IF f \in DOMAIN data THEN data[f] ELSE cfg[f]]

\* A frame is the array capture_array returned: h is the handle it came
\* from, rows the number of rows of the array that hold image data.
FrameRows == 2
NoFrame == [h |-> 0, rows |-> 0]          \* latest_frame = None

\* A Picamera2 object that was never constructed.
Unborn ==
    [st |-> "unborn", started |-> FALSE, cfg |-> NoCfg, enc |-> FALSE, bitrate |-> 0]

VARIABLES
    camera,                 \* the global handle: 0 is None, else a handle id
    recording,              \* the global flag
    recording_lock,         \* 0 when free, else the request thread holding it
    stream_active,          \* the global flag
    latest_frame,           \* the shared slot: NoFrame or a frame
    latest_frame_lock,      \* 0 when free, t for request t, -g for grabber g
    frame_grabber_thread,   \* 0 is None, else a grabber thread
    frame_grabber_running,  \* the global flag
    stream_config,
    record_config,
    hw,                     \* the Picamera2 objects: state of each handle
    nhandles,               \* Picamera2 objects constructed so far
    faults,                 \* library calls that may still raise in this run
    nreq,                   \* requests Flask may still dispatch in this run
    pc,                     \* position of each request thread
    stack,                  \* return positions of each request thread
    resp,                   \* the response a handler hands to Flask in this step
    vframe,                 \* a viewer's local "frame"
    error_count,            \* a viewer's local error_count
    faults0,                \* the value of faults when the last request was dispatched
    gpc,                    \* position of each grabber thread
    gh,                     \* the handle a grabber's capture_array runs on
    gframe,                 \* a grabber's local "frame"
    video_config,           \* start_recording's local video_config
    sessions                \* session.get('user') of each client's Flask session

vars == << camera, recording, recording_lock, stream_active, latest_frame,
           latest_frame_lock, frame_grabber_thread, frame_grabber_running,
           stream_config, record_config, hw, nhandles, faults, nreq,
           pc, stack, resp, vframe, error_count, faults0, gpc, gh, gframe,
           video_config, sessions >>

\* The globals of the camera session.
session == << camera, recording, stream_active, frame_grabber_thread,
              frame_grabber_running, stream_config, record_config >>

hwvars == << hw, nhandles, faults >>
grabvars == << gpc, gh, gframe >>
slotvars == << latest_frame, latest_frame_lock >>
viewvars == << vframe, error_count, video_config >>
dispvars == << nreq, faults0, sessions >>
reqvars == << pc, stack, viewvars, dispvars >>

(* --------------------------- the SDK ---------------------------------- *)

IsOpen(h) == h # 0 /\ hw[h].st = "open"

\* A call into the SDK or into cv2 may raise while the run's fault budget
\* lasts.
MayFault == faults > 0
Fault == faults' = faults - 1

HwStop(h) == [hw EXCEPT ![h].started = FALSE]
HwClose(h) ==
    [hw EXCEPT ![h].st = "closed", ![h].started = FALSE, ![h].enc = FALSE,
               ![h].bitrate = 0]
HwConfigure(h, cfg) == [hw EXCEPT ![h].cfg = cfg]
HwStart(h) == [hw EXCEPT ![h].started = TRUE]
HwStartRecording(h, bitrate) ==
    [hw EXCEPT ![h].enc = TRUE, ![h].started = TRUE, ![h].bitrate = bitrate]
HwStopRecording(h) ==
    [hw EXCEPT ![h].enc = FALSE, ![h].started = FALSE, ![h].bitrate = 0]

\* "camera.m()" with camera None raises AttributeError; configure, start
\* and start_recording raise on a handle that was closed.
CallRaises(h) == h = 0 \/ ~IsOpen(h)

\* What capture_array returns on handle h.
Frame(h) == [h |-> h, rows |-> FrameRows]

(* ------------------------ thread plumbing ----------------------------- *)

Goto(t, l) == pc' = [pc EXCEPT ![t] = l]

\* Call a function whose first step is l, to continue at r when it returns.
Call(t, l, r) ==
    /\ pc' = [pc EXCEPT ![t] = l]
    /\ stack' = [stack EXCEPT ![t] = <<r>> \o @]

\* Return from the function on top of the stack.
Return(t) ==
    /\ pc' = [pc EXCEPT ![t] = Head(stack[t])]
    /\ stack' = [stack EXCEPT ![t] = Tail(@)]

\* One more request arrives at Flask.
Arrive == nreq > 0 /\ nreq' = nreq - 1 /\ faults0' = faults

\* A require_login that lets every request through.
AuthorizedUnchecked(c) == TRUE

\* require_login: 'user' in session, for the session of client c.
Authorized(c) == sessions[c] # NoUser

\* Flask dispatches one more request to a handler wrapped by
\* require_login: a request of a client whose session holds 'user'.
Dispatch ==
    /\ \E c \in Clients : Authorized(c)
    /\ Arrive
    /\ UNCHANGED sessions

\* No response is handed over in this step.
NoResp == [by |-> 0, msg |-> "none"]
Quiet == resp' = NoResp

\* The handler of thread t returns r to Flask.
Respond(t, r) ==
    /\ pc' = [pc EXCEPT ![t] = "idle"]
    /\ resp' = [by |-> t, msg |-> r]

\* The generator of thread t yields r to Flask.
Yield(t, r) == resp' = [by |-> t, msg |-> r]

\* The globals after the module is imported and app.run has started, with
\* rcfg in record_config: no handler of a wrapped endpoint has run,
\* init_camera has not been called.
Boot(rcfg) ==
    /\ camera = 0
    /\ recording = FALSE
    /\ recording_lock = 0
    /\ stream_active = FALSE
    /\ latest_frame = NoFrame
    /\ latest_frame_lock = 0
    /\ frame_grabber_thread = 0
    /\ frame_grabber_running = FALSE
    /\ stream_config = DefaultStreamConfig
    /\ record_config = rcfg
    /\ hw = [h \in Handles |-> Unborn]
    /\ nhandles = 0
    /\ pc = [t \in Reqs |-> "idle"]
    /\ stack = [t \in Reqs |-> << >>]
    /\ resp = NoResp
    /\ vframe = [t \in Reqs |-> NoFrame]
    /\ error_count = [t \in Reqs |-> 0]
    /\ gpc = [g \in Grabbers |-> "none"]
    /\ gh = [g \in Grabbers |-> 0]
    /\ gframe = [g \in Grabbers |-> NoFrame]
    /\ video_config = [t \in Reqs |-> NoCfg]

\* Every client has logged in.
LoggedIn == sessions = [c \in Clients |-> DEFAULT_USERNAME]

\* The server after start, the clients logged in and nothing else done.
Start == Boot(DefaultRecordConfig) /\ LoggedIn

(* ------------------------- init_camera -------------------------------- *)

\* if camera is not None:
\*     try: camera.stop(); camera.close()  except Exception: print
\* An exception of stop() skips close().
IcRelease(t) ==
    /\ pc[t] = "ic_release"
    /\ IF camera = 0
         THEN /\ Goto(t, "ic_new")
              /\ UNCHANGED hwvars
         ELSE /\ Goto(t, "ic_clear")
              /\ \/ hw' = HwClose(camera) /\ UNCHANGED faults
                 \/ MayFault /\ Fault /\ hw' = hw                 \* stop() raised
                 \/ MayFault /\ Fault /\ hw' = HwStop(camera)     \* close() raised
              /\ UNCHANGED nhandles
    /\ Quiet
    /\ UNCHANGED << session, grabvars, slotvars, recording_lock, stack, viewvars, dispvars >>

\*     camera = None; stream_active = False; time.sleep(1)
IcClear(t) ==
    /\ pc[t] = "ic_clear"
    /\ camera' = 0
    /\ stream_active' = FALSE
    /\ Goto(t, "ic_new")
    /\ Quiet
    /\ UNCHANGED << recording, frame_grabber_thread, frame_grabber_running,
                    stream_config, record_config, hwvars, grabvars, slotvars,
                    recording_lock, stack, viewvars, dispvars >>

\* camera = Picamera2()
IcNew(t) ==
    /\ pc[t] = "ic_new"
    /\ \/ /\ nhandles < MaxHandles
          /\ nhandles' = nhandles + 1
          /\ hw' = [hw EXCEPT ![nhandles + 1] = [Unborn EXCEPT !.st = "open"]]
          /\ camera' = nhandles + 1
          /\ Goto(t, "ic_setup")
          /\ UNCHANGED faults
       \/ /\ MayFault
          /\ Fault
          /\ Goto(t, "ic_fail")
          /\ UNCHANGED << hw, nhandles, camera >>
    /\ Quiet
    /\ UNCHANGED << recording, stream_active, frame_grabber_thread,
                    frame_grabber_running, stream_config, record_config,
                    grabvars, slotvars, recording_lock, stack, viewvars, dispvars >>

\* init_camera applying the recording configuration.
IcConfigOfRecording == record_config

\* The configuration init_camera applies.
IcConfig == stream_config

\* camera.configure(camera.create_video_configuration(stream_config ...))
\* camera.set_controls(...); camera.start(); time.sleep(2)
IcSetup(t) ==
    /\ pc[t] = "ic_setup"
    /\ \/ /\ ~CallRaises(camera)
          /\ hw' = [hw EXCEPT ![camera].cfg = IcConfig, ![camera].started = TRUE]
          /\ Goto(t, "ic_active")
          /\ UNCHANGED faults
       \/ /\ CallRaises(camera)
          /\ Goto(t, "ic_fail")
          /\ UNCHANGED << hw, faults >>
       \/ /\ ~CallRaises(camera) /\ MayFault          \* configure raised
          /\ Fault
          /\ Goto(t, "ic_fail")
          /\ UNCHANGED hw
       \/ /\ ~CallRaises(camera) /\ MayFault          \* start raised
          /\ Fault
          /\ hw' = HwConfigure(camera, IcConfig)
          /\ Goto(t, "ic_fail")
    /\ Quiet
    /\ UNCHANGED << session, nhandles, grabvars, slotvars, recording_lock,
                    stack, viewvars, dispvars >>

\* stream_active = True; start_frame_grabber(), which begins with
\* stop_frame_grabber()
IcActive(t) ==
    /\ pc[t] = "ic_active"
    /\ stream_active' = TRUE
    /\ Call(t, "sg_flag", "sfg_spawn")
    /\ Quiet
    /\ UNCHANGED << camera, recording, frame_grabber_thread, frame_grabber_running,
                    stream_config, record_config, hwvars, grabvars, slotvars,
                    recording_lock, viewvars, dispvars >>

\* An init_camera whose except clause also clears the recording flag.
IcFailClearsRecording == FALSE

\* init_camera declares "global camera, stream_active" only: recording is
\* as it was.
IcFailRecording == recording

\* except Exception: stream_active = False; camera = None
IcFail(t) ==
    /\ pc[t] = "ic_fail"
    /\ stream_active' = FALSE
    /\ camera' = 0
    /\ recording' = IcFailRecording
    /\ Return(t)
    /\ Quiet
    /\ UNCHANGED << frame_grabber_thread, frame_grabber_running,
                    stream_config, record_config, hwvars, grabvars, slotvars,
                    recording_lock, viewvars, dispvars >>

(* --------------- start_frame_grabber / stop_frame_grabber ------------- *)

\* frame_grabber_running = False
SgFlag(t) ==
    /\ pc[t] = "sg_flag"
    /\ frame_grabber_running' = FALSE
    /\ Goto(t, "sg_join")
    /\ Quiet
    /\ UNCHANGED << camera, recording, stream_active, frame_grabber_thread,
                    stream_config, record_config, hwvars, grabvars, slotvars,
                    recording_lock, stack, viewvars, dispvars >>

\* A join without a timeout: it returns only when the thread has ended.
JoinWaits(g) == gpc[g] = "dead"

\* join(timeout=1) returns when the thread has ended, and after one second
\* whatever the thread is doing.
JoinReturns(g) == gpc[g] = "dead" \/ gpc[g] # "dead"

\* if frame_grabber_thread is not None: frame_grabber_thread.join(timeout=1)
\* frame_grabber_thread = None
SgJoin(t) ==
    /\ pc[t] = "sg_join"
    /\ frame_grabber_thread # 0 => JoinReturns(frame_grabber_thread)
    /\ frame_grabber_thread' = 0
    /\ Return(t)
    /\ Quiet
    /\ UNCHANGED << camera, recording, stream_active, frame_grabber_running,
                    stream_config, record_config, hwvars, grabvars, slotvars,
                    recording_lock, viewvars, dispvars >>

\* A thread object not in use: never started, or ended and no longer
\* referenced by frame_grabber_thread.
FreeGrabber(g) == gpc[g] \in {"none", "dead"} /\ frame_grabber_thread # g
NewGrabber == CHOOSE g \in Grabbers :
                 FreeGrabber(g) /\ \A k \in Grabbers : FreeGrabber(k) => g <= k

\* if camera is not None:
\*     frame_grabber_thread = threading.Thread(target=grabber, daemon=True)
\*     frame_grabber_thread.start()
\* and init_camera returns.
SfgSpawn(t) ==
    /\ pc[t] = "sfg_spawn"
    /\ IF camera # 0
         THEN /\ \E g \in Grabbers : FreeGrabber(g)
              /\ frame_grabber_thread' = NewGrabber
              /\ gpc' = [gpc EXCEPT ![NewGrabber] = "init"]
              /\ UNCHANGED << gh, gframe >>
         ELSE UNCHANGED << frame_grabber_thread, grabvars >>
    /\ Return(t)
    /\ Quiet
    /\ UNCHANGED << camera, recording, stream_active, frame_grabber_running,
                    stream_config, record_config, hwvars, slotvars,
                    recording_lock, viewvars, dispvars >>

(* ------------------------- grabber thread ----------------------------- *)

\* frame_grabber_running = True
GrabberBegin(g) ==
    /\ gpc[g] = "init"
    /\ frame_grabber_running' = TRUE
    /\ gpc' = [gpc EXCEPT ![g] = "check"]
    /\ Quiet
    /\ UNCHANGED << camera, recording, stream_active, frame_grabber_thread,
                    stream_config, record_config, hwvars, gh, gframe, slotvars,
                    recording_lock, reqvars >>

\* while frame_grabber_running and camera is not None:
GrabberLoop == frame_grabber_running /\ camera # 0

\* The loop test; when it holds, camera.capture_array() is called on the
\* handle the global names; when it fails, frame_grabber_running = False
\* and the thread ends.
GrabberCheck(g) ==
    /\ gpc[g] = "check"
    /\ IF GrabberLoop
         THEN /\ gpc' = [gpc EXCEPT ![g] = "capture"]
              /\ gh' = [gh EXCEPT ![g] = camera]
         ELSE /\ gpc' = [gpc EXCEPT ![g] = "exit"]
              /\ UNCHANGED gh
    /\ Quiet
    /\ UNCHANGED << session, hwvars, gframe, slotvars, recording_lock, reqvars >>

\* capture_array() returns a frame of a started camera; on a camera that is
\* stopped or closed it raises
\* (except Exception: time.sleep(0.1), back to the loop test).
GrabberCapture(g) ==
    /\ gpc[g] = "capture"
    /\ IF IsOpen(gh[g]) /\ hw[gh[g]].started
         THEN /\ gframe' = [gframe EXCEPT ![g] = Frame(gh[g])]
              /\ gpc' = [gpc EXCEPT ![g] = "acquire"]
         ELSE /\ gframe' = gframe
              /\ gpc' = [gpc EXCEPT ![g] = "check"]
    /\ gh' = [gh EXCEPT ![g] = 0]
    /\ Quiet
    /\ UNCHANGED << session, hwvars, slotvars, recording_lock, reqvars >>

\* A grabber that writes the slot without taking the lock.
GrabberLockFree == FALSE

\* The grabber takes latest_frame_lock before it writes the slot.
GrabberLocks == TRUE

\* with latest_frame_lock:
GrabberAcquire(g) ==
    /\ gpc[g] = "acquire"
    /\ IF GrabberLocks
         THEN latest_frame_lock = 0 /\ latest_frame_lock' = -g
         ELSE UNCHANGED latest_frame_lock
    /\ gpc' = [gpc EXCEPT ![g] = "write"]
    /\ Quiet
    /\ UNCHANGED << session, hwvars, gh, gframe, latest_frame, recording_lock,
                    reqvars >>

\*     latest_frame = frame           (and the lock is released)
GrabberWrite(g) ==
    /\ gpc[g] = "write"
    /\ latest_frame' = gframe[g]
    /\ latest_frame_lock' = IF latest_frame_lock = -g THEN 0 ELSE latest_frame_lock
    /\ gframe' = [gframe EXCEPT ![g] = NoFrame]
    /\ gpc' = [gpc EXCEPT ![g] = "check"]
    /\ Quiet
    /\ UNCHANGED << session, hwvars, gh, recording_lock, reqvars >>

\* frame_grabber_running = False, and the thread ends
GrabberExit(g) ==
    /\ gpc[g] = "exit"
    /\ frame_grabber_running' = FALSE
    /\ gpc' = [gpc EXCEPT ![g] = "dead"]
    /\ Quiet
    /\ UNCHANGED << camera, recording, stream_active, frame_grabber_thread,
                    stream_config, record_config, hwvars, gh, gframe, slotvars,
                    recording_lock, reqvars >>

(* ------------------------- start_recording ---------------------------- *)

\* start_recording without its first precondition check.
SrAlreadyUnchecked == FALSE

\* if recording:
SrAlready == recording
\* if camera is None:
SrNoCamera == camera = 0

\* with recording_lock: the two precondition checks, each returning with
\* the lock released; past them the handler keeps the lock.  An exception
\* of the first statements of the try block (os.makedirs) leads to the
\* handler's except clause.
StartRecording(t) ==
    /\ pc[t] = "idle"
    /\ Dispatch
    /\ recording_lock = 0
    /\ \/ /\ SrAlready
          /\ Respond(t, "Already recording")
          /\ UNCHANGED << recording_lock, faults >>
       \/ /\ ~SrAlready
          /\ SrNoCamera
          /\ Respond(t, "Camera not initialized")
          /\ UNCHANGED << recording_lock, faults >>
       \/ /\ ~SrAlready
          /\ ~SrNoCamera
          /\ recording_lock' = t
          /\ Quiet
          /\ \/ Goto(t, "sr_stop") /\ UNCHANGED faults
             \/ MayFault /\ Fault /\ Goto(t, "sr_exc")
    /\ UNCHANGED << session, hw, nhandles, grabvars, slotvars, stack, viewvars >>

\* try: camera.stop()  except Exception: print;  then stop_frame_grabber()
SrStop(t) ==
    /\ pc[t] = "sr_stop"
    /\ \/ /\ camera # 0
          /\ hw' = HwStop(camera)
          /\ UNCHANGED faults
       \/ /\ camera = 0 \/ MayFault
          /\ IF camera = 0 THEN UNCHANGED faults ELSE Fault
          /\ UNCHANGED hw
    /\ Call(t, "sg_flag", "sr_cfg")
    /\ Quiet
    /\ UNCHANGED << session, nhandles, grabvars, slotvars, recording_lock, viewvars, dispvars >>

\* The configuration start_recording applies.
SrConfig == record_config

\* time.sleep(1); camera.configure(create_video_configuration(record_config))
\* and camera.start(), an exception of either re-raised; an exception of
\* camera.set_controls between them is only printed.  time.sleep(2)
SrReconfigure(t) ==
    /\ pc[t] = "sr_cfg"
    /\ \/ /\ ~CallRaises(camera)
          /\ hw' = [hw EXCEPT ![camera].cfg = SrConfig, ![camera].started = TRUE]
          /\ video_config' = [video_config EXCEPT ![t] = SrConfig]
          /\ Goto(t, "sr_enc")
          /\ UNCHANGED faults
       \/ /\ CallRaises(camera)
          /\ Goto(t, "sr_exc")
          /\ UNCHANGED << hw, faults, video_config >>
       \/ /\ ~CallRaises(camera) /\ MayFault          \* configure raised
          /\ Fault
          /\ Goto(t, "sr_exc")
          /\ UNCHANGED << hw, video_config >>
       \/ /\ ~CallRaises(camera) /\ MayFault          \* start raised
          /\ Fault
          /\ hw' = HwConfigure(camera, SrConfig)
          /\ video_config' = [video_config EXCEPT ![t] = SrConfig]
          /\ Goto(t, "sr_exc")
    /\ Quiet
    /\ UNCHANGED << session, nhandles, grabvars, slotvars, recording_lock,
                    stack, vframe, error_count, dispvars >>

\* A bit rate chosen by the height of the recording.
BitrateByHeight(cfg) ==
    IF cfg.height >= 1080 THEN 20000000
    ELSE IF cfg.height >= 720 THEN 15000000
    ELSE 10000000

\* if record_config['width'] >= 1920: bitrate = 20000000
\* elif record_config['width'] >= 1280: bitrate = 15000000
\* else: bitrate = 10000000
Bitrate(cfg) ==
    IF cfg.width >= 1920 THEN 20000000
    ELSE IF cfg.width >= 1280 THEN 15000000
    ELSE 10000000

\* camera.start_recording(H264Encoder(bitrate), FileOutput(filename))
SrEncoder(t) ==
    /\ pc[t] = "sr_enc"
    /\ \/ /\ ~CallRaises(camera)
          /\ hw' = HwStartRecording(camera, Bitrate(record_config))
          /\ Goto(t, "sr_set")
          /\ UNCHANGED faults
       \/ /\ CallRaises(camera) \/ MayFault
          /\ IF CallRaises(camera) THEN UNCHANGED faults ELSE Fault
          /\ Goto(t, "sr_exc")
          /\ UNCHANGED hw
    /\ Quiet
    /\ UNCHANGED << session, nhandles, grabvars, slotvars, recording_lock,
                    stack, viewvars, dispvars >>

\* 'settings': record_config, of the success response.
SrSettings == record_config

\* recording = True; return jsonify(status success ...), the lock released
SrSet(t) ==
    /\ pc[t] = "sr_set"
    /\ recording' = TRUE
    /\ recording_lock' = 0
    /\ video_config' = [video_config EXCEPT ![t] = NoCfg]
    /\ Respond(t, "recording started")
    /\ UNCHANGED << camera, stream_active, frame_grabber_thread,
                    frame_grabber_running, stream_config, record_config,
                    hwvars, grabvars, slotvars, stack, vframe, error_count, dispvars >>

\* except Exception: recording = False
\*     if camera: stop_recording(), stop(), close(), each in a try of its own
\*     camera = None; time.sleep(1); init_camera()
SrExcept(t) ==
    /\ pc[t] = "sr_exc"
    /\ recording' = FALSE
    /\ \/ /\ hw' = IF camera # 0 THEN HwClose(camera) ELSE hw
          /\ UNCHANGED faults
       \/ /\ camera # 0 /\ MayFault                   \* close() raised: pass
          /\ Fault
          /\ hw' = HwStopRecording(camera)
    /\ camera' = 0
    /\ Call(t, "ic_release", "sr_fail")
    /\ Quiet
    /\ UNCHANGED << stream_active, frame_grabber_thread, frame_grabber_running,
                    stream_config, record_config, nhandles, grabvars, slotvars,
                    recording_lock, viewvars, dispvars >>

\* return jsonify(status error, message str(e)), the lock released
SrFail(t) ==
    /\ pc[t] = "sr_fail"
    /\ recording_lock' = 0
    /\ video_config' = [video_config EXCEPT ![t] = NoCfg]
    /\ Respond(t, "recording failed")
    /\ UNCHANGED << session, hwvars, grabvars, slotvars, stack, vframe, error_count, dispvars >>

(* ------------------------- stop_recording ----------------------------- *)

\* stop_recording without its precondition check.
StNotRecordingUnchecked == FALSE

\* if not recording:
StNotRecording == ~recording

\* with recording_lock: the precondition check
StopRecording(t) ==
    /\ pc[t] = "idle"
    /\ Dispatch
    /\ recording_lock = 0
    /\ IF StNotRecording
         THEN /\ Respond(t, "Not recording")
              /\ UNCHANGED recording_lock
         ELSE /\ recording_lock' = t
              /\ Quiet
              /\ Goto(t, "st_stop")
    /\ UNCHANGED << session, hwvars, grabvars, slotvars, stack, viewvars >>

\* A stop_recording that leaves the flag set until the handle is gone.
StFlagKept == recording

\* recording = False, before camera.close()
StFlag == FALSE

\* try: camera.stop_recording()  except Exception: print
\* try: camera.stop()            except Exception: print
\* recording = False
StStop(t) ==
    /\ pc[t] = "st_stop"
    /\ \/ /\ camera # 0
          /\ hw' = HwStopRecording(camera)
          /\ UNCHANGED faults
       \/ /\ camera = 0 \/ MayFault                   \* both raised
          /\ IF camera = 0 THEN UNCHANGED faults ELSE Fault
          /\ UNCHANGED hw
    /\ recording' = StFlag
    /\ Goto(t, "st_close")
    /\ Quiet
    /\ UNCHANGED << camera, stream_active, frame_grabber_thread,
                    frame_grabber_running, stream_config, record_config,
                    nhandles, grabvars, slotvars, recording_lock, stack, viewvars, dispvars >>

\* time.sleep(0.5); try: camera.close()  except Exception: print
\* stop_frame_grabber()
StClose(t) ==
    /\ pc[t] = "st_close"
    /\ \/ /\ camera # 0
          /\ hw' = HwClose(camera)
          /\ UNCHANGED faults
       \/ /\ camera = 0 \/ MayFault
          /\ IF camera = 0 THEN UNCHANGED faults ELSE Fault
          /\ UNCHANGED hw
    /\ Call(t, "sg_flag", "st_none")
    /\ Quiet
    /\ UNCHANGED << session, nhandles, grabvars, slotvars, recording_lock, viewvars, dispvars >>

\* camera = None; time.sleep(1); init_camera()
StNone(t) ==
    /\ pc[t] = "st_none"
    /\ camera' = 0
    /\ Call(t, "ic_release", "st_done")
    /\ Quiet
    /\ UNCHANGED << recording, stream_active, frame_grabber_thread,
                    frame_grabber_running, stream_config, record_config,
                    hwvars, grabvars, slotvars, recording_lock, viewvars, dispvars >>

\* return jsonify(status success), the lock released
StDone(t) ==
    /\ pc[t] = "st_done"
    /\ recording_lock' = 0
    /\ Respond(t, "recording stopped")
    /\ UNCHANGED << session, hwvars, grabvars, slotvars, stack, viewvars, dispvars >>

(* ---------------------- settings and status --------------------------- *)

\* An update_stream_settings that stores the fields and returns without
\* calling init_camera.
UsNoReinit == "us_skip"

\* init_camera(), called by update_stream_settings after the fields are stored.
UsReinit == "ic_release"

\* stream_config[f] = data.get(f, stream_config[f]) for the three fields,
\* then init_camera()
UpdateStreamSettingsWith(t, data) ==
    /\ pc[t] = "idle"
    /\ Dispatch
    /\ stream_config' = MergeConfig(stream_config, data)
    /\ Call(t, UsReinit, "us_done")
    /\ Quiet
    /\ UNCHANGED << camera, recording, stream_active, frame_grabber_thread,
                    frame_grabber_running, record_config, hwvars, grabvars,
                    slotvars, recording_lock, viewvars >>

\* POST /update_stream_settings with one of the bodies of StreamData.
UpdateStreamSettings(t) == \E data \in StreamData : UpdateStreamSettingsWith(t, data)

\* return jsonify(status success, message 'Stream settings updated')
UsDone(t) ==
    /\ pc[t] = "us_done"
    /\ Respond(t, "Stream settings updated")
    /\ UNCHANGED << session, hwvars, grabvars, slotvars, recording_lock, stack,
                    viewvars, dispvars >>

\* record_config[f] = data.get(f, record_config[f]) for the three fields
UpdateRecordSettingsWith(t, data) ==
    /\ pc[t] = "idle"
    /\ Dispatch
    /\ record_config' = MergeConfig(record_config, data)
    /\ Respond(t, "Record settings updated")
    /\ UNCHANGED << camera, recording, stream_active, frame_grabber_thread,
                    frame_grabber_running, stream_config, hwvars, grabvars,
                    slotvars, recording_lock, stack, viewvars >>

\* POST /update_record_settings with one of the bodies of RecordData.
UpdateRecordSettings(t) == \E data \in RecordData : UpdateRecordSettingsWith(t, data)

\* A status that reports the camera ready whatever the global holds.
StatusBodyAlwaysReady ==
    [recording |-> recording,
     stream_active |-> stream_active,
     camera_ready |-> TRUE,
     stream_config |-> stream_config,
     record_config |-> record_config]

\* The body status returns.
StatusBody ==
    [recording |-> recording,
     stream_active |-> stream_active,
     camera_ready |-> camera # 0,
     stream_config |-> stream_config,
     record_config |-> record_config]

\* return jsonify(recording, stream_active, camera_ready, both configs)
Status(t) ==
    /\ pc[t] = "idle"
    /\ Dispatch
    /\ pc' = [pc EXCEPT ![t] = "idle"]
    /\ resp' = [by |-> t, msg |-> "status", body |-> StatusBody]
    /\ UNCHANGED << session, hwvars, grabvars, slotvars, recording_lock, stack, viewvars >>

(* ------------------- video_feed / generate_frames --------------------- *)

\* if not stream_active or camera is None:
VfInactive == ~stream_active \/ camera = 0

\* The first test of generate_frames: init_camera() when the camera is not
\* active.
VideoFeed(t) ==
    /\ pc[t] = "idle"
    /\ Dispatch
    /\ IF VfInactive
         THEN Call(t, "ic_release", "vf_check")
         ELSE Goto(t, "vf_check") /\ UNCHANGED stack
    /\ Quiet
    /\ UNCHANGED << session, hwvars, grabvars, slotvars, recording_lock, viewvars >>

\* The second test: one placeholder and return, or the streaming loop.
VfCheck(t) ==
    /\ pc[t] = "vf_check"
    /\ IF VfInactive
         THEN Respond(t, "placeholder, end of stream")
         ELSE Goto(t, "vf_first") /\ Quiet
    /\ UNCHANGED << session, hwvars, grabvars, slotvars, recording_lock, stack,
                    viewvars, dispvars >>

\* The viewer takes latest_frame_lock before it reads the slot.
ViewerLocks == TRUE

\* with latest_frame_lock:
VfAcquire(t) ==
    /\ pc[t] \in {"vf_first", "vf_loop"}
    /\ IF ViewerLocks
         THEN latest_frame_lock = 0 /\ latest_frame_lock' = t
         ELSE UNCHANGED latest_frame_lock
    /\ Goto(t, "vf_copy")
    /\ Quiet
    /\ UNCHANGED << session, hwvars, grabvars, latest_frame, recording_lock,
                    stack, viewvars, dispvars >>

\* if error_count > 5:
ErrorLimit == 5

\* What a disconnect leaves in stream_active, against what the handler of
\* any other exception of the generator leaves there.
DisconnectClearsStream == FALSE
DisconnectKeepsStream == stream_active

\* A viewer that hands on whatever the slot holds as a camera frame.
ServedUnchecked(frame) == "frame"

\* if frame is None: yield the blank PNG; else yield the frame as JPEG.
Served(frame) == IF frame = NoFrame THEN "placeholder" ELSE "frame"

\*     frame = latest_frame.copy() if latest_frame is not None else None
\* (the lock released).  When frame is None the placeholder is yielded.
\* Else cv2.imencode: the frame encoded as JPEG is yielded and
\* error_count = 0; or ret is False and the loop continues; or it raises:
\* except Exception: error_count += 1, and past the limit
\*     try: if camera: camera.stop(); camera.close()  except: pass
\*     init_camera(); error_count = 0
VfCopy(t) ==
    /\ pc[t] = "vf_copy"
    /\ latest_frame_lock' = IF latest_frame_lock = t THEN 0 ELSE latest_frame_lock
    /\ vframe' = [vframe EXCEPT ![t] = latest_frame]
    /\ \/ /\ Yield(t, Served(latest_frame))
          /\ error_count' = [error_count EXCEPT
                               ![t] = IF latest_frame = NoFrame THEN @ ELSE 0]
          /\ Goto(t, "vf_loop")
          /\ UNCHANGED << hwvars, stack >>
       \/ /\ latest_frame # NoFrame /\ MayFault          \* ret is False
          /\ Fault
          /\ Quiet
          /\ Goto(t, "vf_loop")
          /\ UNCHANGED << hw, nhandles, error_count, stack >>
       \/ /\ latest_frame # NoFrame /\ MayFault          \* imencode raised
          /\ Fault
          /\ Quiet
          /\ IF error_count[t] + 1 > ErrorLimit
               THEN /\ hw' = IF camera # 0 THEN HwClose(camera) ELSE hw
                    /\ error_count' = [error_count EXCEPT ![t] = 0]
                    /\ Call(t, "ic_release", "vf_loop")
               ELSE /\ error_count' = [error_count EXCEPT ![t] = @ + 1]
                    /\ Goto(t, "vf_loop")
                    /\ UNCHANGED << hw, stack >>
          /\ UNCHANGED nhandles
    /\ UNCHANGED << session, grabvars, latest_frame, recording_lock, dispvars,
                    video_config >>

\* except GeneratorExit: the client went away while the generator was
\* suspended in a yield; only a message is printed.
VfDisconnect(t) ==
    /\ pc[t] = "vf_loop"
    /\ Respond(t, "disconnected")
    /\ vframe' = [vframe EXCEPT ![t] = NoFrame]
    /\ error_count' = [error_count EXCEPT ![t] = 0]
    /\ stream_active' = DisconnectKeepsStream
    /\ UNCHANGED << camera, recording, frame_grabber_thread, frame_grabber_running,
                    stream_config, record_config, hwvars, grabvars, slotvars,
                    recording_lock, stack, dispvars, video_config >>

(* --------------------- download_file / delete_file -------------------- *)

\* if recording: return jsonify(status error, 'Cannot delete while recording')
DeleteFile(t) ==
    /\ pc[t] = "idle"
    /\ Dispatch
    /\ IF recording
         THEN Respond(t, "Cannot delete while recording")
         ELSE Goto(t, "del_remove") /\ Quiet
    /\ UNCHANGED << session, hwvars, grabvars, slotvars, recording_lock, stack, viewvars >>

\* The filename checks, each returning an error; else os.remove(filepath)
\* and return jsonify(status success, message 'File deleted').
DeleteRemove(t) ==
    /\ pc[t] = "del_remove"
    /\ \/ Respond(t, "File deleted")
       \/ Respond(t, "File not found")
    /\ UNCHANGED << session, hwvars, grabvars, slotvars, recording_lock, stack,
                    viewvars, dispvars >>

\* if recording: return "Cannot download while recording", 400
DownloadFile(t) ==
    /\ pc[t] = "idle"
    /\ Dispatch
    /\ IF recording
         THEN Respond(t, "Cannot download while recording")
         ELSE Goto(t, "dl_send") /\ Quiet
    /\ UNCHANGED << session, hwvars, grabvars, slotvars, recording_lock, stack, viewvars >>

\* The filename checks, each returning an error; else the conversion to
\* MP4 when needed and return send_file(filepath, ...).
DownloadSend(t) ==
    /\ pc[t] = "dl_send"
    /\ \/ Respond(t, "file sent")
       \/ Respond(t, "File not found")
    /\ UNCHANGED << session, hwvars, grabvars, slotvars, recording_lock, stack,
                    viewvars, dispvars >>

FileStep(t) ==
    \/ DeleteFile(t) \/ DeleteRemove(t) \/ DownloadFile(t) \/ DownloadSend(t)

\* The process is running: app.run has not returned.
Serving == \A t \in Reqs : pc[t] # "exited"

\* The process ends: the handler threads are gone and the grabber threads,
\* which are daemon threads, end with it.
ProcessExit ==
    /\ pc' = [t \in Reqs |-> "exited"]
    /\ gpc' = [g \in Grabbers |-> IF gpc[g] = "none" THEN "none" ELSE "dead"]

(* -------------------- list_recordings / reboot_pi --------------------- *)

\* return jsonify(status success, recordings files)
ListRecordings(t) ==
    /\ pc[t] = "idle"
    /\ Dispatch
    /\ Respond(t, "recordings")
    /\ UNCHANGED << session, hwvars, grabvars, slotvars, recording_lock, stack, viewvars >>

\* threading.Thread(target=lambda: (time.sleep(1), os.system('sudo reboot'))).start()
\* return jsonify(status success, message 'Rebooting Raspberry Pi...')
\* The response is sent and the reboot ends the process one second later.
RebootPi(t) ==
    /\ pc[t] = "idle"
    /\ Dispatch
    /\ resp' = [by |-> t, msg |-> "Rebooting Raspberry Pi..."]
    /\ ProcessExit
    /\ UNCHANGED << session, hwvars, gh, gframe, slotvars, recording_lock, stack,
                    viewvars >>

(* ------------------- require_login / login / logout ------------------- *)

\* if 'user' not in session:
\*     return jsonify(status error, message 'Unauthorized'), 401
\* for a request to any wrapped endpoint; the handler is not called.
Unauthorized(t) ==
    /\ pc[t] = "idle"
    /\ \E c \in Clients : ~Authorized(c)
    /\ Arrive
    /\ Respond(t, "Unauthorized")
    /\ UNCHANGED << session, hwvars, grabvars, slotvars, recording_lock, stack,
                    viewvars, sessions >>

\* if username == DEFAULT_USERNAME and password == DEFAULT_PASSWORD:
\*     session['user'] = username; return 'Logged in'
\* else: return 'Invalid credentials', 401
LoginWith(t, c, username, password) ==
    /\ pc[t] = "idle"
    /\ Arrive
    /\ IF username = DEFAULT_USERNAME /\ password = DEFAULT_PASSWORD
         THEN /\ sessions' = [sessions EXCEPT ![c] = username]
              /\ Respond(t, "Logged in")
         ELSE /\ UNCHANGED sessions
              /\ Respond(t, "Invalid credentials")
    /\ UNCHANGED << session, hwvars, grabvars, slotvars, recording_lock, stack, viewvars >>

Login(t) ==
    \E c \in Clients, username \in Usernames, password \in Passwords :
       LoginWith(t, c, username, password)

\* session.clear(); return 'Logged out'
LogoutOf(t, c) ==
    /\ pc[t] = "idle"
    /\ Arrive
    /\ sessions' = [sessions EXCEPT ![c] = NoUser]
    /\ Respond(t, "Logged out")
    /\ UNCHANGED << session, hwvars, grabvars, slotvars, recording_lock, stack, viewvars >>

Logout(t) == \E c \in Clients : LogoutOf(t, c)

AuthStep(t) == Unauthorized(t) \/ Login(t) \/ Logout(t)

(* ------------------------------ __main__ ------------------------------ *)

\* except KeyboardInterrupt:
\*     if camera: camera.stop()
\*     stop_frame_grabber()
\*     print("Server stopped")
\* An exception of camera.stop() leaves the clause before stop_frame_grabber.
MainInterrupt ==
    /\ Serving
    /\ \/ /\ hw' = IF camera # 0 THEN HwStop(camera) ELSE hw
          /\ frame_grabber_running' = FALSE
          /\ frame_grabber_thread' = 0
          /\ resp' = [by |-> 0, msg |-> "Server stopped"]
          /\ UNCHANGED faults
       \/ /\ camera # 0 /\ MayFault
          /\ Fault
          /\ resp' = [by |-> 0, msg |-> "exit"]
          /\ UNCHANGED << hw, frame_grabber_running, frame_grabber_thread >>
    /\ ProcessExit
    /\ UNCHANGED << camera, recording, stream_active, stream_config, record_config,
                    nhandles, gh, gframe, slotvars, recording_lock, stack,
                    viewvars, dispvars >>

\* app.run returns, or raises an exception that is not a KeyboardInterrupt:
\* no statement follows the try, and no other except or finally clause is there.
MainReturn ==
    /\ Serving
    /\ resp' = [by |-> 0, msg |-> "exit"]
    /\ ProcessExit
    /\ UNCHANGED << session, hwvars, gh, gframe, slotvars, recording_lock, stack,
                    viewvars, dispvars >>

(* --------------------------- the system ------------------------------- *)

\* A step of init_camera, start_frame_grabber or stop_frame_grabber.
InitStep(t) ==
    \/ IcRelease(t) \/ IcClear(t) \/ IcNew(t) \/ IcSetup(t) \/ IcActive(t)
    \/ IcFail(t) \/ SgFlag(t) \/ SgJoin(t) \/ SfgSpawn(t)

ControlStep(t) ==
    \/ StartRecording(t) \/ SrStop(t) \/ SrReconfigure(t) \/ SrEncoder(t)
    \/ SrSet(t) \/ SrExcept(t) \/ SrFail(t)
    \/ StopRecording(t) \/ StStop(t) \/ StClose(t) \/ StNone(t) \/ StDone(t)

ViewerStep(t) ==
    \/ VideoFeed(t) \/ VfCheck(t) \/ VfAcquire(t) \/ VfCopy(t) \/ VfDisconnect(t)

SettingsStep(t) ==
    \/ UpdateStreamSettings(t) \/ UsDone(t) \/ UpdateRecordSettings(t) \/ Status(t)

RequestStep(t) ==
    InitStep(t) \/ ControlStep(t) \/ ViewerStep(t) \/ SettingsStep(t)

GrabberStep(g) ==
    \/ GrabberBegin(g) \/ GrabberCheck(g) \/ GrabberCapture(g)
    \/ GrabberAcquire(g) \/ GrabberWrite(g) \/ GrabberExit(g)

\* Requests arrive at any time: every request thread runs any handler.
Init == Start /\ faults = 0 /\ faults0 = 0 /\ nreq = MaxRequests

Next ==
    \/ \E t \in Reqs : RequestStep(t)
    \/ \E g \in Grabbers : GrabberStep(g)

Spec == Init /\ [][Next]_vars

\* Requests issued one at a time: a request is dispatched when the one
\* before it has returned, so a single handler thread is ever busy.  The
\* grabber threads run beside it, and SDK calls may raise.
InitSeq == Start /\ faults = MaxFaults /\ faults0 = MaxFaults /\ nreq = MaxSeqRequests

NextSeq ==
    \/ \E t \in {1} : RequestStep(t)
    \/ \E g \in Grabbers : GrabberStep(g)

SpecSeq == InitSeq /\ [][NextSeq]_vars

\* Settings only: every request is a POST /update_stream_settings or a
\* POST /update_record_settings with any body of Bodies, one at a time.
InitCfg == Start /\ faults = MaxCfgFaults /\ faults0 = MaxCfgFaults /\ nreq = MaxCfgRequests

NextCfg ==
    \/ \E t \in {1} :
          \/ \E data \in Bodies : UpdateStreamSettingsWith(t, data)
          \/ \E data \in Bodies : UpdateRecordSettingsWith(t, data)
          \/ UsDone(t)
          \/ InitStep(t)
    \/ \E g \in Grabbers : GrabberStep(g)

SpecCfg == InitCfg /\ [][NextCfg]_vars

\* Recordings at every configuration of RateConfigs: record_config is as
\* earlier update_record_settings requests left it, then requests arrive
\* one at a time.
InitRate ==
    /\ \E rcfg \in RateConfigs : Boot(rcfg)
    /\ LoggedIn
    /\ faults = MaxRateFaults /\ faults0 = MaxRateFaults /\ nreq = MaxRateRequests

NextRate ==
    \/ \E t \in {1} :
          \/ InitStep(t) \/ ControlStep(t) \/ ViewerStep(t)
          \/ UpdateStreamSettings(t) \/ UsDone(t)
    \/ \E g \in Grabbers : GrabberStep(g)

SpecRate == InitRate /\ [][NextRate]_vars

\* The server with its end: requests one at a time, and at any moment the
\* main block is left.
InitExit ==
    Start /\ faults = MaxExitFaults /\ faults0 = MaxExitFaults /\ nreq = MaxExitRequests

NextExit ==
    \/ NextRate
    \/ MainInterrupt
    \/ MainReturn

SpecExit == InitExit /\ [][NextExit]_vars

\* Recordings and file requests on any thread; the camera is initialized
\* by an update_stream_settings.
InitFile ==
    Start /\ faults = MaxFileFaults /\ faults0 = MaxFileFaults /\ nreq = MaxFileRequests

NextFile ==
    \/ \E t \in Reqs :
          \/ InitStep(t) \/ ControlStep(t) \/ FileStep(t)
          \/ UpdateStreamSettings(t) \/ UsDone(t)
    \/ \E g \in Grabbers : GrabberStep(g)

SpecFile == InitFile /\ [][NextFile]_vars

\* The server as it starts, no client logged in: logins, logouts and
\* requests to every endpoint, one at a time.
InitAuth ==
    /\ Boot(DefaultRecordConfig)
    /\ sessions = [c \in Clients |-> NoUser]
    /\ faults = MaxAuthFaults /\ faults0 = MaxAuthFaults /\ nreq = MaxAuthRequests

NextAuth ==
    \/ \E t \in {1} :
          \/ AuthStep(t) \/ RequestStep(t) \/ FileStep(t)
          \/ ListRecordings(t) \/ RebootPi(t)
    \/ \E g \in Grabbers : GrabberStep(g)

SpecAuth == InitAuth /\ [][NextAuth]_vars

\* Viewers only: every request is a GET /video_feed, any number of them at
\* a time, and the calls of a viewer into cv2 and the SDK may raise.
InitView ==
    Start /\ faults = MaxViewFaults /\ faults0 = MaxViewFaults /\ nreq = MaxViewers

NextView ==
    \/ \E t \in Reqs : InitStep(t) \/ ViewerStep(t)
    \/ \E g \in Grabbers : GrabberStep(g)

SpecView == InitView /\ [][NextView]_vars

\* Viewers whose calls do not raise, every thread scheduled again and
\* again: a running handler or grabber thread takes its next step, and a
\* viewer that finds latest_frame_lock free again and again gets it.
InitFair == Start /\ faults = 0 /\ faults0 = 0 /\ nreq = MaxViewers

Progress(t) == InitStep(t) \/ VfCheck(t) \/ VfCopy(t)

SpecViewFair ==
    /\ InitFair
    /\ [][NextView]_vars
    /\ \A t \in Reqs : WF_vars(Progress(t)) /\ SF_vars(VfAcquire(t))
    /\ \A g \in Grabbers : WF_vars(GrabberStep(g))

\* Control calls on every thread, a viewer on the first thread and the
\* grabbers, every thread that is inside a handler or a grabber scheduled
\* again and again.
InitLock ==
    Start /\ faults = MaxLockFaults /\ faults0 = MaxLockFaults /\ nreq = MaxLockRequests

NextLock ==
    \/ \E t \in Reqs : InitStep(t) \/ ControlStep(t)
    \/ \E t \in {1} : ViewerStep(t)
    \/ \E g \in Grabbers : GrabberStep(g)

\* A step of a handler that is past its dispatch.
Runs(t) == pc[t] # "idle" /\ (InitStep(t) \/ ControlStep(t))

SpecLock ==
    /\ InitLock
    /\ [][NextLock]_vars
    /\ \A t \in Reqs : WF_vars(Runs(t))
    /\ \A g \in Grabbers : WF_vars(GrabberStep(g))

\* The same requests with every step of a handler scheduled again and
\* again, the steps of a viewer included; when the next request arrives is
\* up to the clients.
SpecRetry ==
    /\ InitLock
    /\ [][NextLock]_vars
    /\ \A t \in Reqs : WF_vars(Runs(t)) /\ WF_vars(Progress(t)) /\ SF_vars(VfAcquire(t))
    /\ \A g \in Grabbers : WF_vars(GrabberStep(g))

(* ---------------------------- properties ------------------------------ *)

\* The positions of a request thread inside init_camera (with the
\* start_frame_grabber and stop_frame_grabber it calls) and inside the
\* bodies of start_recording and stop_recording past their checks: the
\* sections that stop, close, configure or replace the handle and write
\* camera, stream_active and recording.
InitPcs == {"ic_release", "ic_clear", "ic_new", "ic_setup", "ic_active",
            "ic_fail", "sg_flag", "sg_join", "sfg_spawn"}
ControlPcs == {"sr_stop", "sr_cfg", "sr_enc", "sr_set", "sr_exc", "sr_fail",
               "st_stop", "st_close", "st_none", "st_done"}
InSection(t) == pc[t] \in InitPcs \cup ControlPcs

\* C1: no two mode-mutating operations (init_camera, start_recording,
\* stop_recording) are inside their handle-mutating sections at the same
\* time.
C1_Serialized ==
    \A t, u \in Reqs : t # u => ~(InSection(t) /\ InSection(u))

\* The frame grabber g is in its capture loop: inside capture_array, or
\* between its return and the write of latest_frame.
InCaptureLoop(g) == gpc[g] \in {"capture", "acquire", "write"}

\* C2: the frame relay never runs during Recording: while recording is
\* True no grabber thread is in its capture loop.
C2_NoRelayWhileRecording ==
    recording => \A g \in Grabbers : ~InCaptureLoop(g)

\* What start_recording and stop_recording must leave alone when a
\* precondition fails: the flags, the handle and its hardware state, the
\* frame grabber, the slot and both configs.
sessionState == << camera, recording, stream_active, frame_grabber_thread,
                   frame_grabber_running, stream_config, record_config,
                   hw, gpc, latest_frame, recording_lock >>

\* C3: start_recording called while recording is True returns 'Already
\* recording' and leaves the session state unchanged.
C3_AlreadyRecording ==
    [][\A t \in Reqs :
         (recording /\ StartRecording(t)) =>
            /\ resp' = [by |-> t, msg |-> "Already recording"]
            /\ pc'[t] = "idle"
            /\ UNCHANGED sessionState]_vars

\* A start_recording has just been refused while a recording runs.
C3_Witness == resp.msg = "Already recording" /\ recording /\ camera # 0

\* C4: stop_recording called while recording is False returns 'Not
\* recording' and leaves the session state unchanged.
C4_NotRecording ==
    [][\A t \in Reqs :
         (~recording /\ StopRecording(t)) =>
            /\ resp' = [by |-> t, msg |-> "Not recording"]
            /\ pc'[t] = "idle"
            /\ UNCHANGED sessionState]_vars

\* A stop_recording has just been refused on a session in preview.
C4_Witness == resp.msg = "Not recording" /\ ~recording /\ camera # 0

\* C5: start_recording called while camera is None returns 'Camera not
\* initialized', does not set recording and makes no hardware call.
C5_NotInitialized ==
    [][\A t \in Reqs :
         (camera = 0 /\ StartRecording(t)) =>
            /\ resp' = [by |-> t, msg |-> "Camera not initialized"]
            /\ recording' = recording
            /\ hw' = hw]_vars

\* The modes of the session.  Preview: a handle is present, open and
\* configured with stream_config, and the stream is active.
Preview ==
    /\ camera # 0
    /\ stream_active
    /\ IsOpen(camera)
    /\ hw[camera].cfg = stream_config
Uninitialized == camera = 0 /\ ~stream_active

\* The error responses of start_recording.
StartErrors == {"Already recording", "Camera not initialized", "recording failed"}

Completed == {"recording started", "recording failed", "Already recording",
              "recording stopped"}

\* C7: after each completed start_recording / stop_recording call, issued
\* one at a time on an initialized session, the session is Recording
\* (recording True) or in Preview (recording False, a handle present, the
\* stream active); a stop_recording that returns success leaves Preview.
C7_RecordingOrPreview ==
    resp.msg \in Completed =>
        \/ recording
        \/ ~recording /\ camera # 0 /\ stream_active

\* C8: after every completed operation, recording or stream_active
\* implies that the handle is not None.
C8_HandlePresent ==
    (\A t \in Reqs : pc[t] = "idle") =>
        (recording \/ stream_active => camera # 0)

\* C9: while a grabber is inside capture_array on a handle, no other
\* thread's stop, close, configure, start or start_recording acts on that
\* handle.
C9_CaptureExcludesReconfigure ==
    [][\A g \in Grabbers :
         gpc[g] = "capture" => hw'[gh[g]] = hw[gh[g]]]_vars

\* A frame as capture_array returns it: all of its rows.
Complete(f) == f.h # 0 /\ f.rows = FrameRows

\* C10: a viewer obtains no frame or one complete frame, and the slot is
\* replaced and read-and-copied only under latest_frame_lock: no viewer
\* is inside its copy while a grabber is inside its replacement.
C10_SlotAtomic ==
    /\ \A t \in Reqs : vframe[t] = NoFrame \/ Complete(vframe[t])
    /\ latest_frame = NoFrame \/ Complete(latest_frame)
    /\ \A t \in Reqs : pc[t] = "vf_copy" => latest_frame_lock = t
    /\ \A g \in Grabbers : gpc[g] = "write" => latest_frame_lock = -g
    /\ \A t \in Reqs, g \in Grabbers : ~(pc[t] = "vf_copy" /\ gpc[g] = "write")

\* A viewer holds a frame it copied, and is inside its next copy while a
\* grabber waits with a new frame for the lock.
C10_Witness ==
    \E t \in Reqs, g \in Grabbers :
        /\ Complete(vframe[t])
        /\ pc[t] = "vf_copy"
        /\ gpc[g] = "acquire"

\* A grabber thread that is alive and can still reach its write of
\* latest_frame.
Writer(g) == gpc[g] \in {"init", "check", "capture", "acquire", "write"}

\* C11: the shared frame slot has a single writer: at most one grabber
\* thread is alive and able to write latest_frame.
C11_SingleWriter ==
    \A g, k \in Grabbers : Writer(g) /\ Writer(k) => g = k

\* The two yields of the blank PNG: the one that ends the stream when the
\* camera is not available, and the one of the loop when the slot is empty.
Blank == {"placeholder", "placeholder, end of stream"}

\* The holder of latest_frame_lock is inside its copy or its write, which
\* it leaves without waiting for anything.
LockHolderLeaves ==
    /\ \A t \in Reqs : latest_frame_lock = t => pc[t] = "vf_copy"
    /\ \A g \in Grabbers : latest_frame_lock = -g => gpc[g] = "write"

\* C12: while no frame has ever been captured (latest_frame is None),
\* every viewer, however many run at a time, is handed the placeholder,
\* and none of them waits indefinitely: whoever holds latest_frame_lock
\* releases it in its next step, and every connected viewer is handed an
\* image again and again.
C12_PlaceholderForAll ==
    /\ [][\A t \in Reqs :
            VfCopy(t) /\ latest_frame = NoFrame =>
               resp' = [by |-> t, msg |-> "placeholder"]]_vars
    /\ [](latest_frame = NoFrame /\ resp.by # 0 /\ resp.msg # "disconnected"
             => resp.msg \in Blank)
    /\ []LockHolderLeaves
    /\ \A t \in Reqs : (pc[t] # "idle") ~> (resp.by = t)

\* Two viewers are served at a time from the empty slot: one has just
\* been handed the placeholder while the other, served before, is in its
\* loop.
C12_Witness ==
    \E t, u \in Reqs :
        /\ t # u
        /\ latest_frame = NoFrame
        /\ resp = [by |-> t, msg |-> "placeholder"]
        /\ pc[u] = "vf_loop"

\* C13: every iteration of generate_frames hands the viewer a camera frame
\* or the placeholder.
C13_FrameOrPlaceholder ==
    [][\A t \in Reqs :
         VfCopy(t) => resp'.by = t /\ resp'.msg \in {"frame", "placeholder"}]_vars

\* C14: a viewer is handed a camera frame only while the session is in
\* Preview (not recording, a handle present, the stream active).
C14_FrameOnlyInPreview ==
    resp.msg = "frame" => ~recording /\ camera # 0 /\ stream_active

\* What the producer and the other viewers live on.
shared == << camera, recording, stream_active, latest_frame, latest_frame_lock,
             frame_grabber_thread, frame_grabber_running, hw, gpc >>

\* C15: a viewer disconnecting (GeneratorExit) leaves camera, recording,
\* stream_active, latest_frame and the frame grabber unchanged.
C15_DisconnectIsLocal ==
    [][\A t \in Reqs : VfDisconnect(t) => UNCHANGED shared]_vars

\* A viewer has just disconnected while another viewer is in its loop
\* and a grabber is writing frames.
C15_Witness ==
    \E t, u \in Reqs, g \in Grabbers :
        /\ t # u
        /\ resp = [by |-> t, msg |-> "disconnected"]
        /\ pc[u] = "vf_loop"
        /\ Complete(vframe[u])
        /\ Writer(g)

\* Thread t is inside generate_frames, the init_camera calls it makes
\* included.
ViewerPcs == {"vf_check", "vf_first", "vf_loop", "vf_copy"}
InGenerate(t) ==
    \/ pc[t] \in ViewerPcs
    \/ stack[t] # << >> /\ stack[t][Len(stack[t])] \in ViewerPcs

\* Viewer u is in its streaming loop, fed by the camera and the grabber.
Streaming(u) == pc[u] \in {"vf_first", "vf_loop", "vf_copy"}

\* C16: no step of a viewer inside generate_frames stops, closes or
\* replaces the camera, or stops the frame grabber, that another viewer is
\* streaming from.
C16_ViewersDoNotDisturb ==
    [][\A t, u \in Reqs :
         /\ t # u /\ InGenerate(t) /\ pc'[t] # pc[t]
         /\ Streaming(u) /\ camera # 0 /\ stream_active
         => /\ camera' = camera
            /\ hw'[camera] = hw[camera]
            /\ frame_grabber_running => frame_grabber_running']_vars

\* C17: when init_camera fails, the session ends Uninitialized and the
\* handle this attempt acquired has been closed.
C17_FailureReleases ==
    [][\A t \in Reqs :
         IcFail(t) =>
            /\ camera' = 0 /\ ~stream_active'
            /\ camera # 0 => hw'[camera].st = "closed"]_vars

\* A call of the handler that has just returned raised: the fault budget
\* is below what it was when the request was dispatched.
Raised == faults < faults0

\* C18: start_recording never returns success after one of its steps
\* (stopping capture, configure, set_controls, start, starting the
\* encoder) failed; it tears down, re-initializes and returns the error.
C18_StartFailureSurfaces ==
    resp.msg = "recording started" => ~Raised

\* C19: stop_recording returns an error response, not success, when one
\* of its steps (stopping the writer, stopping capture, closing the
\* handle, the re-initialization) failed.
C19_StopFailureSurfaces ==
    resp.msg = "recording stopped" => ~Raised

\* C20: stop_recording, called one request at a time on a session that
\* records on a handle, stops the writer and the capture on the handle
\* and clears recording while the handle is still held and open, then
\* closes it, then sets camera to None, then init_camera constructs a
\* handle that was never used before and configures it with
\* stream_config.  (A step that raises leaves the hardware as it was; the
\* steps after it follow in the same order.)
C20_StopOrder ==
    [][\A t \in Reqs :
         /\ StStop(t) =>
               /\ recording /\ ~recording'
               /\ camera' = camera
               /\ camera # 0 =>
                     /\ IsOpen(camera) /\ hw'[camera].st = "open"
                     /\ faults' = faults =>
                           ~hw'[camera].enc /\ ~hw'[camera].started
         /\ StClose(t) =>
               /\ ~recording
               /\ camera' = camera
               /\ camera # 0 /\ faults' = faults => hw'[camera].st = "closed"
         /\ StNone(t) => ~recording /\ camera' = 0
         /\ IcNew(t) /\ stack[t] = << "st_done" >> /\ camera' # 0 =>
               /\ camera = 0
               /\ hw[camera'].st = "unborn"
         /\ StDone(t) =>
               /\ ~recording
               /\ camera # 0 => IsOpen(camera) /\ hw[camera].cfg = stream_config
      ]_vars

\* A stop_recording has returned success with a fresh handle in preview,
\* the handle that recorded being closed.
C20_Witness ==
    /\ resp.msg = "recording stopped"
    /\ camera = 2
    /\ hw[1].st = "closed"
    /\ hw[2].started

\* C21: every transition between Preview and Recording passes through a
\* release and a reacquire of the handle: the handle start_recording
\* configures for the recording, like the handle init_camera configures
\* for the preview after a recording, is a fresh one, never configured
\* before.
C21_FreshHandlePerMode ==
    [][\A t \in Reqs :
         /\ SrReconfigure(t) /\ pc'[t] = "sr_enc" => hw[camera].cfg = NoCfg
         /\ IcSetup(t) /\ pc'[t] = "ic_active" => hw[camera].cfg = NoCfg]_vars

\* C22: start_recording and stop_recording never modify the two configs,
\* and after a stop_recording that returns success status reports recording
\* False and camera_ready True, the camera being configured with
\* stream_config again.
C22_PreviewRestored ==
    /\ [][\A t \in Reqs :
            ControlStep(t) => UNCHANGED << stream_config, record_config >>]_vars
    /\ [](resp.msg = "recording stopped" =>
            /\ ~StatusBody.recording
            /\ StatusBody.camera_ready
            /\ IsOpen(camera)
            /\ hw[camera].cfg = StatusBody.stream_config)

\* C23: the settings of the success response of start_recording are the
\* width, height and fps of the video_config that call handed to
\* camera.configure, whatever other requests ran meanwhile.
C23_SettingsAreApplied ==
    [][\A t \in Reqs : SrSet(t) => SrSettings = video_config[t]]_vars

\* C25: status changes nothing of the session, the camera, the grabber,
\* the frame slot or the lock, is answered whether or not recording_lock
\* is held, and its body gives recording, stream_active, whether a handle
\* is present, and both configurations as they are at that moment.
C25_StatusReadsOnly ==
    /\ [][\A t \in Reqs :
            Status(t) => UNCHANGED << session, hwvars, grabvars, slotvars,
                                      recording_lock >>]_vars
    /\ [](\A t \in Reqs : pc[t] = "idle" /\ nreq > 0 => ENABLED Status(t))
    /\ [](resp.msg = "status" =>
            resp.body = [recording |-> recording,
                         stream_active |-> stream_active,
                         camera_ready |-> camera # 0,
                         stream_config |-> stream_config,
                         record_config |-> record_config])

\* A status answered while a start or stop of another request holds
\* recording_lock.
C25_Witness ==
    /\ resp.msg = "status"
    /\ recording_lock # 0
    /\ resp.body.camera_ready

C26_PartialUpdate ==
    [][\A t \in Reqs : \A data \in Bodies :
         /\ UpdateStreamSettingsWith(t, data) =>
               /\ \A f \in Fields :
                     stream_config'[f] = IF f \in DOMAIN data THEN data[f]
                                                              ELSE stream_config[f]
               /\ record_config' = record_config
         /\ UpdateRecordSettingsWith(t, data) =>
               /\ \A f \in Fields :
                     record_config'[f] = IF f \in DOMAIN data THEN data[f]
                                                              ELSE record_config[f]
               /\ stream_config' = stream_config]_vars

\* Both configurations hold one field an update stored and one field still
\* at its default.
C26_Witness ==
    /\ resp.msg = "Record settings updated"
    /\ \E f, g \in Fields :
          /\ stream_config[f] # DefaultStreamConfig[f]
          /\ stream_config[g] = DefaultStreamConfig[g]
    /\ \E f, g \in Fields :
          /\ record_config[f] # DefaultRecordConfig[f]
          /\ record_config[g] = DefaultRecordConfig[g]

\* The tiers of the bit rate by width.
Tier(width) ==
    IF width >= 1920 THEN 20000000
    ELSE IF width < 1280 THEN 10000000
    ELSE 15000000

\* C30: the encoder start_recording starts runs at 20000000 for a
\* record_config width of 1920 or more, at 15000000 for a width from 1280
\* to 1919 and at 10000000 below; the bit rate never decreases when the
\* width grows and is the same for equal widths whatever height and fps.
C30_BitrateTiers ==
    /\ [][\A t \in Reqs :
            SrEncoder(t) /\ pc'[t] = "sr_set" =>
               hw'[camera].bitrate = Tier(record_config.width)]_vars
    /\ [](\A cfg \in RateConfigs :
            /\ record_config.width <= cfg.width =>
                  Bitrate(record_config) <= Bitrate(cfg)
            /\ record_config.width = cfg.width =>
                  Bitrate(record_config) = Bitrate(cfg))

\* A recording started at the middle tier with the smaller height.
C30_Witness ==
    /\ resp.msg = "recording started"
    /\ hw[camera].enc /\ hw[camera].bitrate = 15000000
    /\ record_config.width = 1919 /\ record_config.height = 480

\* C29: when the main block is left, by KeyboardInterrupt, by the return of
\* app.run or by an error, the handle the global holds is stopped and
\* closed and the frame grabber is stopped.
C29_ShutdownReleases ==
    resp.msg \in {"Server stopped", "exit"} =>
        /\ camera # 0 => hw[camera].st = "closed" /\ ~hw[camera].started
        /\ ~frame_grabber_running
        /\ frame_grabber_thread = 0

\* The responses of start_recording and stop_recording.
ControlResponses ==
    {"Already recording", "Camera not initialized", "recording started",
     "recording failed", "Not recording", "recording stopped"}

\* The objects of the model are used up: thread t is about to make a
\* Picamera2 or a grabber thread and every handle or thread id is taken.
Exhausted(t) ==
    \/ pc[t] = "ic_new" /\ nhandles = MaxHandles /\ faults = 0
    \/ pc[t] = "sfg_spawn" /\ camera # 0 /\ \A g \in Grabbers : ~FreeGrabber(g)

\* C24: start_recording and stop_recording take recording_lock only when
\* it is free, and a call that finds it free is never refused; the lock is
\* held only inside the handler: whenever one of them returns, with
\* whatever response, that call does not hold it; and a call that holds
\* the lock, init_camera and the join of stop_frame_grabber included,
\* always comes to return and release it, so that a call waiting for the
\* lock can run.
C24_LockAlwaysReleased ==
    /\ [][\A t \in Reqs :
            StartRecording(t) \/ StopRecording(t) => recording_lock = 0]_vars
    /\ [](\A t \in Reqs :
            pc[t] = "idle" /\ nreq > 0 /\ recording_lock = 0 =>
               ENABLED StartRecording(t) /\ ENABLED StopRecording(t))
    /\ [](\A t \in Reqs : recording_lock = t => pc[t] \in ControlPcs \cup InitPcs)
    /\ [](resp.msg \in ControlResponses => recording_lock # resp.by)
    /\ \A t \in Reqs :
          (recording_lock = t) ~>
              \/ recording_lock = 0 /\ resp.by = t /\ resp.msg \in ControlResponses
              \/ Exhausted(t)

\* A stop_recording has returned, its init_camera and join done under the
\* lock, while the other thread is a viewer in its streaming loop.
C24_Witness ==
    /\ resp.msg = "recording stopped"
    /\ recording_lock = 0
    /\ \E t \in Reqs : pc[t] \in {"vf_loop", "vf_check", "vf_copy"}

\* The session is not initialized: no handle, or the stream not active.
Down == camera = 0 \/ ~stream_active

\* C28: once the SDK calls no longer raise, a session that is not
\* initialized comes back to Preview while clients may still send
\* requests (nreq > 0), and until then a viewer is handed placeholders only.
C28_RetriesUntilPreview ==
    /\ (Down /\ faults = 0) ~> (Preview \/ nreq = 0)
    /\ [](Down => resp.msg # "frame")

\* C31: a grabber thread that stop_frame_grabber has stopped (it is no
\* longer the thread frame_grabber_thread names) calls capture_array no
\* more and writes latest_frame no more.
C31_StoppedGrabberIsQuiet ==
    [][\A g \in Grabbers :
         \/ GrabberCheck(g) /\ gpc'[g] = "capture"
         \/ GrabberWrite(g)
         => frame_grabber_thread = g]_vars

\* C32: while recording is True the global names an open handle whose
\* encoder is running: nothing but stop_recording closes or replaces the
\* handle start_recording started the encoder on.
C32_RecordingIsInProgress ==
    recording => camera # 0 /\ IsOpen(camera) /\ hw[camera].enc

\* The handles that were constructed and not closed.
OpenHandles == { h \in Handles : hw[h].st = "open" }

\* C33: at most one Picamera2 handle is open at any time, and an open
\* handle is the one the global camera names.
C33_OneOpenHandle ==
    /\ Cardinality(OpenHandles) <= 1
    /\ \A h \in OpenHandles : camera = h

\* C34: delete_file removes a file and download_file sends a file only in
\* states where recording is False.
C34_NoFileOpWhileRecording ==
    [][\A t \in Reqs :
         \/ DeleteRemove(t) /\ resp'.msg = "File deleted"
         \/ DownloadSend(t) /\ resp'.msg = "file sent"
         => ~recording]_vars

\* C35: recording changes only in a step of start_recording or
\* stop_recording taken by the thread that holds recording_lock; it
\* becomes True only in the step that follows a successful start of the
\* encoder; no step of init_camera, of a viewer, of a settings update or
\* of a file request changes it.
C35_FlagWrittenUnderLock ==
    [][/\ recording' # recording =>
            \E t \in Reqs :
               /\ recording_lock = t
               /\ SrSet(t) \/ SrExcept(t) \/ StStop(t)
       /\ ~recording /\ recording' => \E t \in Reqs : SrSet(t)
       /\ \A t \in Reqs :
             pc[t] # "sr_set" /\ pc'[t] = "sr_set" =>
                SrEncoder(t) /\ hw'[camera].enc
       /\ \A t \in Reqs :
             InitStep(t) \/ FileStep(t) \/ UpdateStreamSettings(t) \/ UsDone(t) =>
                recording' = recording]_vars

\* A recording runs, started while the other thread was inside a file
\* request or init_camera.
C35_Witness ==
    /\ resp.msg = "recording started"
    /\ recording
    /\ \E t \in Reqs : pc[t] \in InitPcs \cup {"del_remove", "dl_send"}

\* The responses of require_login, login and logout.
AuthResponses == {"Unauthorized", "Logged in", "Invalid credentials", "Logged out"}

\* The camera session and everything a wrapped endpoint could change.
guarded == << session, hwvars, grabvars, slotvars, recording_lock, stack, viewvars >>

\* C36: a request of a client whose session holds no 'user' is answered
\* 'Unauthorized' and changes nothing; a handler of a wrapped endpoint
\* starts only for a request of a client whose session holds 'user';
\* 'user' enters a session only by a login with the matching username and
\* password, and a logout removes it.
C36_LoginRequired ==
    [][\A t \in Reqs :
         /\ Unauthorized(t) =>
               /\ resp' = [by |-> t, msg |-> "Unauthorized"]
               /\ UNCHANGED << guarded, sessions >>
         /\ (\A c \in Clients : sessions[c] = NoUser) /\ pc[t] = "idle" /\ pc'[t] = "idle"
              /\ resp'.by = t =>
               /\ resp'.msg \in AuthResponses
               /\ UNCHANGED guarded
         /\ (\A c \in Clients : sessions[c] = NoUser) /\ pc[t] = "idle" => pc'[t] = "idle"
         /\ \A c \in Clients :
               /\ sessions[c] = NoUser /\ sessions'[c] # NoUser =>
                     /\ \E u \in Reqs : LoginWith(u, c, DEFAULT_USERNAME, DEFAULT_PASSWORD)
                     /\ sessions'[c] = DEFAULT_USERNAME
               /\ LogoutOf(t, c) => sessions'[c] = NoUser
               /\ \A username \in Usernames, password \in Passwords :
                     /\ LoginWith(t, c, username, password)
                     /\ username # DEFAULT_USERNAME \/ password # DEFAULT_PASSWORD
                     => sessions' = sessions /\ resp'.msg = "Invalid credentials"]_vars

\* A client was refused after another request had initialized the camera,
\* and no session holds 'user' any more.
C36_Witness ==
    /\ resp.msg = "Unauthorized"
    /\ camera # 0
    /\ \A c \in Clients : sessions[c] = NoUser

====
